---- MODULE Spec2Model ----
(***************************************************************************)
(* Model of the Go rules engine in game/board.go: the Board aggregate, the *)
(* group/liberty analysis, move validation (occupancy, suicide, ko), the   *)
(* capture processor, MakeMove, Pass and IsGameOver.                       *)
(*                                                                         *)
(* Functions of the source that mutate the receiver are modelled as        *)
(* operators from a board record to a record holding the board they leave  *)
(* behind together with their return value, so that a mutation the source  *)
(* does not undo stays visible.                                            *)
(***************************************************************************)
EXTENDS Integers, Sequences, FiniteSets, TLC

VARIABLES Size, Grid, CurrentPlayer, CapturedStones, Ko, MoveHistory, lastCall,
          inflight, observed

vars == <<Size, Grid, CurrentPlayer, CapturedStones, Ko, MoveHistory, lastCall,
          inflight, observed>>

boardVars == <<Size, Grid, CurrentPlayer, CapturedStones, Ko, MoveHistory>>

----------------------------------------------------------------------------
(* Bounds of the exploration *)

\* longest move history explored
MaxMoves == 5

\* largest capture tally explored
MaxCaptured == 6

\* side of the board handed to NewBoard
BoardSize == 3

\* the calls recorded in a history explored with interleaved handlers
MaxRequests == 2

\* most passes explored in a history next to MaxMoves placements
MaxPasses == 2

\* side of the boards on which the group and suicide functions are called
\* with every arrangement of stones
SmallBoardSize == 2

\* intersections (row, col) the players place stones on: the corner, edge
\* and centre points around which a ko forms
OfferedCoords == {<<0, 0>>, <<0, 1>>, <<0, 2>>, <<1, 0>>, <<1, 1>>}

\* intersections offered in the games that flank two corner stones at once
FlankCoords == {<<0, 0>>, <<0, 1>>, <<0, 2>>, <<1, 0>>, <<1, 2>>}

\* board size and cells offered to the players in the 9x9 example game
ScenarioSize == 9

ScenarioCells == {0, 1, 9, 10}

\* intersections offered to the requests that reach the HTTP handler, and the
\* position indices next to either end of the grid sent along with them
RequestCoords == {<<0, 0>>, <<0, 1>>, <<1, 0>>}

OutsidePositions(b) == {-1, b.Size * b.Size}

\* the goroutines serving requests on the one board at the same time
Handlers == {1, 2}

----------------------------------------------------------------------------
(* Values of the source *)

Empty == 0

Black == 1

White == 2

\* Move.Position of a pass
PassPosition == -1

\* a nil slice
Nil == <<>>

\* the Board struct as one value
Board ==
  [Size |-> Size, Grid |-> Grid, CurrentPlayer |-> CurrentPlayer,
   CapturedStones |-> CapturedStones, Ko |-> Ko, MoveHistory |-> MoveHistory]

\* len of a slice held as a function over 0..n-1 (nil has length 0)
len(a) == Cardinality(DOMAIN a)

Range(s) == {s[i] : i \in 1..Len(s)}

Cells(b) == 0..(b.Size * b.Size - 1)

----------------------------------------------------------------------------
(* Board State and Group Analyzer *)

NewBoard(size) ==
  [Size |-> size,
   Grid |-> [p \in 0..(size * size - 1) |-> Empty],
   CurrentPlayer |-> Black,
   CapturedStones |-> [i \in 0..2 |-> 0],
   Ko |-> Nil,
   MoveHistory |-> <<>>]

IsValidPosition(b, row, col) == row >= 0 /\ row < b.Size /\ col >= 0 /\ col < b.Size

GetPosition(b, row, col) == row * b.Size + col

GetCoordinates(b, position) == <<position \div b.Size, position % b.Size>>

IsEmpty(b, position) == b.Grid[position] = 0

GetStone(b, position) == b.Grid[position]

\* up, down, left, right
directions == << <<-1, 0>>, <<1, 0>>, <<0, -1>>, <<0, 1>> >>

\* the step of the loop of GetNeighbors for one direction
neighborIn(b, row, col, dir) ==
  IF IsValidPosition(b, row + dir[1], col + dir[2])
  THEN <<GetPosition(b, row + dir[1], col + dir[2])>>
  ELSE <<>>

GetNeighbors(b, position) ==
  LET rc == GetCoordinates(b, position)
  IN neighborIn(b, rc[1], rc[2], directions[1])
       \o neighborIn(b, rc[1], rc[2], directions[2])
       \o neighborIn(b, rc[1], rc[2], directions[3])
       \o neighborIn(b, rc[1], rc[2], directions[4])

RECURSIVE dfs(_, _, _, _)
RECURSIVE dfsNeighbors(_, _, _, _, _)

\* dfs starting its loop at the second neighbour
dfs_SkipsFirstNeighbour(b, color, pos, group) ==
  IF pos \in Range(group) \/ GetStone(b, pos) # color
  THEN group
  ELSE dfsNeighbors(b, color, GetNeighbors(b, pos), 2, Append(group, pos))

\* the closure dfs of GetGroup; visited[pos] holds exactly for the members
\* of group, which is appended to in the same step
dfs(b, color, pos, group) ==
  IF pos \in Range(group) \/ GetStone(b, pos) # color
  THEN group
  ELSE dfsNeighbors(b, color, GetNeighbors(b, pos), 1, Append(group, pos))

\* the loop over the neighbours inside dfs
dfsNeighbors(b, color, ns, i, group) ==
  IF i > Len(ns)
  THEN group
  ELSE dfsNeighbors(b, color, ns, i + 1, dfs(b, color, ns[i], group))

GetGroup(b, position) ==
  LET color == GetStone(b, position)
  IN IF color = 0 THEN Nil ELSE dfs(b, color, position, <<>>)

GetLiberties(b, group) ==
  LET liberties == {n \in UNION {Range(GetNeighbors(b, group[i])) : i \in 1..Len(group)} :
                      IsEmpty(b, n)}
  IN Cardinality(liberties)

----------------------------------------------------------------------------
(* Move Validator and Capture Processor *)

\* WouldBeSuicide with the liberty test off by one (liberties >= 0)
WouldBeSuicide_LibertyTestOffByOne(b, position, player) ==
  LET originalStone == b.Grid[position]
      placed == [b EXCEPT !.Grid[position] = player]
      liberties == GetLiberties(placed, GetGroup(placed, position))
      restored == [placed EXCEPT !.Grid[position] = originalStone]
  IN [b |-> restored, result |-> IF liberties >= 0 THEN FALSE ELSE TRUE]

\* WouldBeSuicide looking for opponent groups that have no liberty before
\* the stone is placed (== 0 for == 1)
WouldBeSuicide_CaptureTestZero(b, position, player) ==
  LET originalStone == b.Grid[position]
      placed == [b EXCEPT !.Grid[position] = player]
      group == GetGroup(placed, position)
      liberties == GetLiberties(placed, group)
      restored == [placed EXCEPT !.Grid[position] = originalStone]
      opponent == 3 - player
      ns == GetNeighbors(restored, position)
      captures == \E i \in 1..Len(ns) :
                    /\ GetStone(restored, ns[i]) = opponent
                    /\ GetLiberties(restored, GetGroup(restored, ns[i])) = 0
  IN [b |-> restored,
      result |-> IF liberties > 0 THEN FALSE ELSE ~captures]

WouldBeSuicide(b, position, player) ==
  LET originalStone == b.Grid[position]
      placed == [b EXCEPT !.Grid[position] = player]
      group == GetGroup(placed, position)
      liberties == GetLiberties(placed, group)
      restored == [placed EXCEPT !.Grid[position] = originalStone]
      opponent == 3 - player
      ns == GetNeighbors(restored, position)
      captures == \E i \in 1..Len(ns) :
                    /\ GetStone(restored, ns[i]) = opponent
                    /\ GetLiberties(restored, GetGroup(restored, ns[i])) = 1
  IN [b |-> restored,
      result |-> IF liberties > 0 THEN FALSE ELSE ~captures]

RECURSIVE processCapturesLoop_StopAfterFirst(_, _, _, _, _)

\* the capture loop leaving at the first group it captures
processCapturesLoop_StopAfterFirst(b, opponent, ns, i, captured) ==
  IF i > Len(ns)
  THEN [b |-> b, captured |-> captured]
  ELSE IF GetStone(b, ns[i]) = opponent /\ GetLiberties(b, GetGroup(b, ns[i])) = 0
       THEN LET group == GetGroup(b, ns[i])
            IN [b |-> [b EXCEPT
                         !.Grid = [p \in DOMAIN b.Grid |->
                                     IF p \in Range(group) THEN 0 ELSE b.Grid[p]],
                         !.CapturedStones[b.CurrentPlayer] = @ + Len(group)],
                captured |-> captured \o group]
       ELSE processCapturesLoop_StopAfterFirst(b, opponent, ns, i + 1, captured)

RECURSIVE processCapturesLoop(_, _, _, _, _)
RECURSIVE captureIfDead(_, _, _, _, _, _)

\* the loop of processCaptures over the neighbours ns of the placed stone
processCapturesLoop(b, opponent, ns, i, captured) ==
  IF i > Len(ns)
  THEN [b |-> b, captured |-> captured]
  ELSE IF GetStone(b, ns[i]) = opponent
       THEN captureIfDead(b, opponent, ns, i, captured, GetGroup(b, ns[i]))
       ELSE processCapturesLoop(b, opponent, ns, i + 1, captured)

\* the body of the loop for the group of an opponent neighbour: a group
\* without liberty is taken off the grid and added to the mover's tally
captureIfDead(b, opponent, ns, i, captured, group) ==
  IF GetLiberties(b, group) = 0
  THEN processCapturesLoop(
         [b EXCEPT
            !.Grid = [p \in DOMAIN b.Grid |->
                        IF p \in Range(group) THEN 0 ELSE b.Grid[p]],
            !.CapturedStones[b.CurrentPlayer] = @ + Len(group)],
         opponent, ns, i + 1, captured \o group)
  ELSE processCapturesLoop(b, opponent, ns, i + 1, captured)

\* processCaptures looking at the mover's own groups (opponent taken to be
\* b.CurrentPlayer)
processCaptures_OwnColour(b, position) ==
  processCapturesLoop(b, b.CurrentPlayer, GetNeighbors(b, position), 1, <<>>)

processCaptures(b, position) ==
  processCapturesLoop(b, 3 - b.CurrentPlayer, GetNeighbors(b, position), 1, <<>>)

\* the restore of the ko block putting the trial captures back in the
\* mover's colour (b.CurrentPlayer for 3 - b.CurrentPlayer)
koCompare_RestoresMoverColour(pc, position) ==
  [b |-> [pc.b EXCEPT
            !.Grid = [p \in DOMAIN pc.b.Grid |->
                        IF p \in Range(pc.captured) THEN pc.b.CurrentPlayer
                        ELSE IF p = position THEN 0
                        ELSE pc.b.Grid[p]]],
   isKo |-> \A i \in DOMAIN pc.b.Grid : pc.b.Grid[i] = pc.b.Ko[i]]

\* the comparison loop looking at the placed cell only
koCompare_ComparesPlacedCellOnly(pc, position) ==
  [b |-> [pc.b EXCEPT
            !.Grid = [p \in DOMAIN pc.b.Grid |->
                        IF p \in Range(pc.captured) THEN 3 - pc.b.CurrentPlayer
                        ELSE IF p = position THEN 0
                        ELSE pc.b.Grid[p]]],
   isKo |-> pc.b.Grid[position] = pc.b.Ko[position]]

\* the comparison loop reading the grid on both sides (stone != b.Grid[i])
koCompare_ComparesGridWithItself(pc, position) ==
  [b |-> [pc.b EXCEPT
            !.Grid = [p \in DOMAIN pc.b.Grid |->
                        IF p \in Range(pc.captured) THEN 3 - pc.b.CurrentPlayer
                        ELSE IF p = position THEN 0
                        ELSE pc.b.Grid[p]]],
   isKo |-> \A i \in DOMAIN pc.b.Grid : pc.b.Grid[i] = pc.b.Grid[i]]

\* the end of the ko block of IsValidMove, given what the trial
\* processCaptures returned: comparison with Ko, then the restore of the grid
koCompare(pc, position) ==
  [b |-> [pc.b EXCEPT
            !.Grid = [p \in DOMAIN pc.b.Grid |->
                        IF p \in Range(pc.captured) THEN 3 - pc.b.CurrentPlayer
                        ELSE IF p = position THEN 0
                        ELSE pc.b.Grid[p]]],
   isKo |-> \A i \in DOMAIN pc.b.Grid : pc.b.Grid[i] = pc.b.Ko[i]]

\* the ko block of IsValidMove: trial placement and trial captures on the
\* board itself, then koCompare
koSimulation(b, position) ==
  koCompare(processCaptures([b EXCEPT !.Grid[position] = b.CurrentPlayer], position),
            position)

\* IsValidMove after the ko block; at names the return statement that
\* decided the call
afterKoCheck(k) ==
  IF k.isKo
  THEN [b |-> k.b, result |-> FALSE, at |-> "ko"]
  ELSE [b |-> k.b, result |-> TRUE, at |-> "valid"]

\* IsValidMove after the call of WouldBeSuicide
afterSuicideCheck(s, position) ==
  IF s.result
  THEN [b |-> s.b, result |-> FALSE, at |-> "suicide"]
  ELSE IF s.b.Ko # Nil /\ len(s.b.Ko) = len(s.b.Grid)
       THEN afterKoCheck(koSimulation(s.b, position))
       ELSE [b |-> s.b, result |-> TRUE, at |-> "valid"]

\* IsValidMove without the occupancy test
IsValidMove_NoOccupancyTest(b, position) ==
  afterSuicideCheck(WouldBeSuicide(b, position, b.CurrentPlayer), position)

IsValidMove(b, position) ==
  IF ~IsEmpty(b, position)
  THEN [b |-> b, result |-> FALSE, at |-> "occupied"]
  ELSE afterSuicideCheck(WouldBeSuicide(b, position, b.CurrentPlayer), position)

\* the end of MakeMove taking the ko snapshot after the stone is placed and
\* the captures are made instead of before
recordMove_SnapshotAfterMove(previousBoard, pc, position) ==
  [b |-> [pc.b EXCEPT
            !.MoveHistory = Append(@, [Player |-> pc.b.CurrentPlayer,
                                       Position |-> position,
                                       CapturedPositions |-> pc.captured]),
            !.Ko = pc.b.Grid,
            !.CurrentPlayer = 3 - @],
   err |-> FALSE]

\* the end of MakeMove, given the grid saved before the placement and what
\* processCaptures returned: the Move record, the ko snapshot, the switch
recordMove(previousBoard, pc, position) ==
  [b |-> [pc.b EXCEPT
            !.MoveHistory = Append(@, [Player |-> pc.b.CurrentPlayer,
                                       Position |-> position,
                                       CapturedPositions |-> pc.captured]),
            !.Ko = previousBoard,
            !.CurrentPlayer = 3 - @],
   err |-> FALSE]

\* MakeMove after the call of IsValidMove, on the board v.b it left behind
afterValidation(v, position) ==
  IF ~v.result
  THEN [b |-> v.b, err |-> TRUE]
  ELSE recordMove(v.b.Grid,
                  processCaptures([v.b EXCEPT !.Grid[position] = v.b.CurrentPlayer],
                                  position),
                  position)

\* the board MakeMove leaves behind and the error it returns
MakeMoveResult(b, position) == afterValidation(IsValidMove(b, position), position)

\* Pass forgetting the ko snapshot
PassResult_ClearsKo(b) ==
  [b EXCEPT !.MoveHistory = Append(@, [Player |-> b.CurrentPlayer,
                                       Position |-> PassPosition,
                                       CapturedPositions |-> <<>>]),
            !.CurrentPlayer = 3 - @,
            !.Ko = Nil]

\* Pass without the switch of players
PassResult_NoSwitch(b) ==
  [b EXCEPT !.MoveHistory = Append(@, [Player |-> b.CurrentPlayer,
                                       Position |-> PassPosition,
                                       CapturedPositions |-> <<>>])]

PassResult(b) ==
  LET move == [Player |-> b.CurrentPlayer,
               Position |-> PassPosition,
               CapturedPositions |-> <<>>]
  IN [b EXCEPT !.MoveHistory = Append(@, move), !.CurrentPlayer = 3 - @]

\* IsGameOver looking at the last move only
IsGameOver_LastMoveOnly(b) ==
  IF Len(b.MoveHistory) < 2
  THEN FALSE
  ELSE b.MoveHistory[Len(b.MoveHistory)].Position = -1

IsGameOver(b) ==
  IF Len(b.MoveHistory) < 2
  THEN FALSE
  ELSE LET lastMove == b.MoveHistory[Len(b.MoveHistory)]
           secondLastMove == b.MoveHistory[Len(b.MoveHistory) - 1]
       IN lastMove.Position = -1 /\ secondLastMove.Position = -1

----------------------------------------------------------------------------
(* The state machine *)

\* the explored part of the state space
WithinBounds(b) ==
  /\ Len(b.MoveHistory) <= MaxMoves
  /\ \A i \in 1..2 : b.CapturedStones[i] <= MaxCaptured

SetBoard(b) ==
  /\ Size' = b.Size
  /\ Grid' = b.Grid
  /\ CurrentPlayer' = b.CurrentPlayer
  /\ CapturedStones' = b.CapturedStones
  /\ Ko' = b.Ko
  /\ MoveHistory' = b.MoveHistory

\* the state right after construction
IsBoard(b) ==
  /\ Size = b.Size
  /\ Grid = b.Grid
  /\ CurrentPlayer = b.CurrentPlayer
  /\ CapturedStones = b.CapturedStones
  /\ Ko = b.Ko
  /\ MoveHistory = b.MoveHistory

\* a handler that is not inside a call of MakeMove
Idle == [phase |-> "idle", position |-> PassPosition, previousBoard |-> Nil,
         captured |-> <<>>]

\* no call has been made yet and no response has been sent
NoCallYet ==
  /\ lastCall = [op |-> "NewBoard", position |-> PassPosition, err |-> FALSE]
  /\ inflight = [t \in Handlers |-> Idle]
  /\ observed = <<>>

Init ==
  /\ IsBoard(NewBoard(BoardSize))
  /\ NoCallYet

InitScenario ==
  /\ IsBoard(NewBoard(ScenarioSize))
  /\ NoCallYet

\* the call returns: the board it leaves behind and its error
Return(b, op, position, err) ==
  /\ WithinBounds(b)
  /\ SetBoard(b)
  /\ lastCall' = [op |-> op, position |-> position, err |-> err]
  /\ UNCHANGED <<inflight, observed>>

\* MakeMove returning r
MakeMoveReturn(r, position) == Return(r.b, "MakeMove", position, r.err)

MakeMove(position) == MakeMoveReturn(MakeMoveResult(Board, position), position)

Pass == Return(PassResult(Board), "Pass", PassPosition, FALSE)

Next ==
  \/ \E c \in OfferedCoords : MakeMove(GetPosition(Board, c[1], c[2]))
  \/ Pass

NextFlank ==
  \/ \E c \in FlankCoords : MakeMove(GetPosition(Board, c[1], c[2]))
  \/ Pass

NextScenario ==
  \/ \E position \in ScenarioCells : MakeMove(position)
  \/ Pass

Spec == Init /\ [][Next]_vars

SpecFlank == Init /\ [][NextFlank]_vars

SpecScenario == InitScenario /\ [][NextScenario]_vars

----------------------------------------------------------------------------
(* Play explored up to MaxMoves placements and MaxPasses passes, long enough
   for both players to pass between a capture and the answer to it *)

\* the entries of a history that are placements
PlacementsOf(moves) == {i \in DOMAIN moves : moves[i].Position # PassPosition}

WithinKoBounds(b) ==
  /\ Cardinality(PlacementsOf(b.MoveHistory)) <= MaxMoves
  /\ Len(b.MoveHistory) - Cardinality(PlacementsOf(b.MoveHistory)) <= MaxPasses
  /\ \A i \in 1..2 : b.CapturedStones[i] <= MaxCaptured

\* the call returns: the board it leaves behind and its error
ReturnKo(b, op, position, err) ==
  /\ WithinKoBounds(b)
  /\ SetBoard(b)
  /\ lastCall' = [op |-> op, position |-> position, err |-> err]
  /\ UNCHANGED <<inflight, observed>>

\* MakeMove returning r
MakeMoveReturnKo(r, position) == ReturnKo(r.b, "MakeMove", position, r.err)

MakeMoveKo(position) == MakeMoveReturnKo(MakeMoveResult(Board, position), position)

PassKo == ReturnKo(PassResult(Board), "Pass", PassPosition, FALSE)

NextKo ==
  \/ \E c \in OfferedCoords : MakeMoveKo(GetPosition(Board, c[1], c[2]))
  \/ PassKo

SpecKo == Init /\ [][NextKo]_vars

----------------------------------------------------------------------------
(* The HTTP handler in front of the board *)

\* the range test of the handler makeMove
OutOfBounds_UpperOffByOne(b, position) == position < 0 \/ position > b.Size * b.Size

OutOfBounds(b, position) == position < 0 \/ position >= b.Size * b.Size

\* the handler makeMove for a request that is not a pass.  A position the
\* range test lets through although the grid has no such cell makes
\* IsEmpty index the grid out of range: the call panics before anything is
\* written and the Recover middleware answers for it.
makeMove(position) ==
  IF OutOfBounds(Board, position)
  THEN Return(Board, "makeMove", position, TRUE)
  ELSE IF position \notin Cells(Board)
       THEN Return(Board, "panic", position, TRUE)
       ELSE MakeMove(position)

NextRequests ==
  \/ \E c \in RequestCoords : makeMove(GetPosition(Board, c[1], c[2]))
  \/ \E position \in OutsidePositions(Board) : makeMove(position)
  \/ Pass

SpecRequests == Init /\ [][NextRequests]_vars

----------------------------------------------------------------------------
(* Handlers running at the same time on one board.  The map of games and the
   board are read and written without a lock, so the statements of one call
   of MakeMove interleave with those of another handler. *)

\* the part of the state space explored with interleaved handlers
WithinRequests(b) ==
  /\ Len(b.MoveHistory) <= MaxRequests
  /\ \A i \in 1..2 : b.CapturedStones[i] <= MaxCaptured

\* handler t has run some statements of MakeMove and is now in state h
Step(b, t, h) ==
  /\ WithinRequests(b)
  /\ SetBoard(b)
  /\ inflight' = [inflight EXCEPT ![t] = h]
  /\ observed' = <<>>
  /\ UNCHANGED lastCall

\* handler t's call of MakeMove returns
Finish(b, t, position, err) ==
  /\ WithinRequests(b)
  /\ SetBoard(b)
  /\ inflight' = [inflight EXCEPT ![t] = Idle]
  /\ observed' = <<>>
  /\ lastCall' = [op |-> "MakeMove", position |-> position, err |-> err]

\* handler t holds a move that IsValidMove accepted
Validated(position) == [Idle EXCEPT !.phase = "validated", !.position = position]

\* the trial stone and the trial captures of the ko block are on the board
trialPlaced(pc, t, position) ==
  Step(pc.b, t, [Idle EXCEPT !.phase = "trial", !.position = position,
                             !.captured = pc.captured])

\* IsValidMove after WouldBeSuicide, up to the trial captures of the ko block
suicideChecked(s, t, position) ==
  IF s.result
  THEN Finish(s.b, t, position, TRUE)
  ELSE IF s.b.Ko # Nil /\ len(s.b.Ko) = len(s.b.Grid)
       THEN trialPlaced(processCaptures([s.b EXCEPT !.Grid[position] = s.b.CurrentPlayer],
                                        position),
                        t, position)
       ELSE Step(s.b, t, Validated(position))

\* handler t enters MakeMove: the occupancy test, the suicide test and the
\* trial placement of the ko block
validateBegin(t, position) ==
  /\ inflight[t].phase = "idle"
  /\ IF ~IsEmpty(Board, position)
     THEN Finish(Board, t, position, TRUE)
     ELSE suicideChecked(WouldBeSuicide(Board, position, CurrentPlayer), t, position)

\* the comparison with Ko has been made and the grid restored
koCompared(k, t, position) ==
  IF k.isKo
  THEN Finish(k.b, t, position, TRUE)
  ELSE Step(k.b, t, Validated(position))

\* handler t finishes the ko block: comparison, restore, return of IsValidMove
validateEnd(t) ==
  /\ inflight[t].phase = "trial"
  /\ koCompared(koCompare([b |-> Board, captured |-> inflight[t].captured],
                          inflight[t].position),
                t, inflight[t].position)

\* handler t copies the grid and places the stone
placeStone(t) ==
  /\ inflight[t].phase = "validated"
  /\ Step([Board EXCEPT !.Grid[inflight[t].position] = CurrentPlayer], t,
          [inflight[t] EXCEPT !.phase = "placed", !.previousBoard = Grid])

\* processCaptures has returned pc to handler t
capturesProcessed(pc, t) ==
  Step(pc.b, t, [inflight[t] EXCEPT !.phase = "captured", !.captured = pc.captured])

\* handler t runs processCaptures
captureStones(t) ==
  /\ inflight[t].phase = "placed"
  /\ capturesProcessed(processCaptures(Board, inflight[t].position), t)

\* handler t appends the Move record, sets Ko, switches players and returns
recordAndSwitch(t) ==
  /\ inflight[t].phase = "captured"
  /\ Finish(recordMove(inflight[t].previousBoard,
                       [b |-> Board, captured |-> inflight[t].captured],
                       inflight[t].position).b,
            t, inflight[t].position, FALSE)

\* the handler makeMove for a pass request
passRequest ==
  /\ WithinRequests(PassResult(Board))
  /\ SetBoard(PassResult(Board))
  /\ lastCall' = [op |-> "Pass", position |-> PassPosition, err |-> FALSE]
  /\ observed' = <<>>
  /\ UNCHANGED inflight

\* the handler getGame answers with the board as it is now
getGame ==
  /\ observed' = <<Board>>
  /\ UNCHANGED <<boardVars, lastCall, inflight>>

NextConcurrent ==
  \/ \E t \in Handlers : \E c \in RequestCoords :
       validateBegin(t, GetPosition(Board, c[1], c[2]))
  \/ \E t \in Handlers : validateEnd(t)
  \/ \E t \in Handlers : placeStone(t)
  \/ \E t \in Handlers : captureStones(t)
  \/ \E t \in Handlers : recordAndSwitch(t)
  \/ passRequest
  \/ getGame

SpecConcurrent == Init /\ [][NextConcurrent]_vars

----------------------------------------------------------------------------
(* The rules of the game, stated on sets of cells, against which the       *)
(* engine is checked                                                       *)

Abs(x) == IF x < 0 THEN -x ELSE x

\* p and q are orthogonally adjacent intersections of a size x size board
Adjacent(size, p, q) ==
  Abs((p \div size) - (q \div size)) + Abs((p % size) - (q % size)) = 1

RECURSIVE Grow(_, _, _, _)

\* least set containing S closed under adjacency within one colour
Grow(grid, size, color, S) ==
  LET next == S \cup {q \in DOMAIN grid :
                        grid[q] = color /\ \E r \in S : Adjacent(size, r, q)}
  IN IF next = S THEN S ELSE Grow(grid, size, color, next)

\* the group of the stone at p
GroupSet(grid, size, p) ==
  IF grid[p] = Empty THEN {} ELSE Grow(grid, size, grid[p], {p})

\* the liberties of a set of stones
LibertySet(grid, size, S) ==
  {q \in DOMAIN grid : grid[q] = Empty /\ \E r \in S : Adjacent(size, r, q)}

\* the grid with a stone of player put on p
Placed(grid, p, player) == [grid EXCEPT ![p] = player]

\* the opponent groups next to p that have no liberty once player's stone is on p
DeadGroups(grid, size, p, player) ==
  LET g == Placed(grid, p, player)
  IN {GroupSet(g, size, q) : q \in {r \in DOMAIN grid :
        /\ Adjacent(size, p, r)
        /\ g[r] = 3 - player
        /\ LibertySet(g, size, GroupSet(g, size, r)) = {}}}

\* the grid after player's placement on p and the captures it makes
RuleResult(grid, size, p, player) ==
  LET dead == UNION DeadGroups(grid, size, p, player)
  IN [q \in DOMAIN grid |-> IF q \in dead THEN Empty ELSE Placed(grid, p, player)[q]]

\* the placement leaves its own group without liberty and captures nothing
RuleSuicide(grid, size, p, player) ==
  LET g == Placed(grid, p, player)
  IN /\ LibertySet(g, size, GroupSet(g, size, p)) = {}
     /\ DeadGroups(grid, size, p, player) = {}

\* every stone of the grid belongs to a group with a liberty: the grids that
\* placements and captures can produce
LegalGrid(grid, size) ==
  \A p \in DOMAIN grid :
    grid[p] # Empty => LibertySet(grid, size, GroupSet(grid, size, p)) # {}

----------------------------------------------------------------------------
(* Calls of WouldBeSuicide and GetGroup on every board of a small size *)

\* a board of the small size holding any arrangement of stones that play can
\* produce; WouldBeSuicide and GetGroup read Size and Grid only
InitBoards ==
  /\ \E grid \in [0..(SmallBoardSize * SmallBoardSize - 1) -> {Empty, Black, White}] :
       /\ LegalGrid(grid, SmallBoardSize)
       /\ IsBoard([NewBoard(SmallBoardSize) EXCEPT !.Grid = grid])
  /\ NoCallYet

\* WouldBeSuicide has returned s
WouldBeSuicideReturn(s, position, player) ==
  /\ SetBoard(s.b)
  /\ lastCall' = [op |-> "WouldBeSuicide", position |-> position, err |-> FALSE,
                  player |-> player, ret |-> s.result]
  /\ UNCHANGED <<inflight, observed>>

\* the one call of WouldBeSuicide made on the board, as IsValidMove makes
\* it: on an empty cell
CallWouldBeSuicide(position, player) ==
  /\ NoCallYet
  /\ IsEmpty(Board, position)
  /\ WouldBeSuicideReturn(WouldBeSuicide(Board, position, player), position, player)

\* the one call of GetGroup made on the board
CallGetGroup(position) ==
  /\ NoCallYet
  /\ lastCall' = [op |-> "GetGroup", position |-> position, err |-> FALSE,
                  player |-> Empty, ret |-> GetGroup(Board, position)]
  /\ UNCHANGED <<boardVars, inflight, observed>>

NextBoards ==
  \/ \E position \in Cells(Board) : \E player \in {Black, White} :
       CallWouldBeSuicide(position, player)
  \/ \E position \in Cells(Board) : CallGetGroup(position)

SpecBoards == InitBoards /\ [][NextBoards]_vars

----------------------------------------------------------------------------

RECURSIVE Replay(_, _, _)

\* the grid after the first k moves of a history, replayed from the empty board
Replay(size, moves, k) ==
  IF k = 0
  THEN [q \in 0..(size * size - 1) |-> Empty]
  ELSE LET g == Replay(size, moves, k - 1)
           m == moves[k]
       IN IF m.Position = PassPosition
          THEN g
          ELSE [q \in DOMAIN g |->
                  IF q = m.Position THEN m.Player
                  ELSE IF q \in Range(m.CapturedPositions) THEN Empty
                  ELSE g[q]]

\* index of the most recent placement of a history (0 when there is none)
LastPlacement(moves) ==
  LET placements == {i \in 1..Len(moves) : moves[i].Position # PassPosition}
  IN IF placements = {} THEN 0 ELSE CHOOSE i \in placements : \A j \in placements : j <= i

\* the grid as it was immediately before the most recent placement
GridBeforeLastPlacement(size, moves) == Replay(size, moves, LastPlacement(moves) - 1)

\* the step is a call of MakeMove, on the cell named by lastCall'.position
MakeMoveStep == lastCall'.op = "MakeMove"

\* the step is a call that succeeded
SucceededStep == lastCall'.op = "Pass" \/ (lastCall'.op = "MakeMove" /\ ~lastCall'.err)

----------------------------------------------------------------------------
(* Claims *)

\* C1: whenever MakeMove returns an error, Grid, CurrentPlayer,
\* CapturedStones, Ko and MoveHistory are exactly as before the call.
C1_FailedMoveLeavesBoard ==
  [][(MakeMoveStep /\ lastCall'.err) => UNCHANGED boardVars]_vars

\* the set of stones a capturing placement on p takes: the opponent groups
\* next to p whose only liberty is p
OnlyLibertyGroups(grid, size, p, player) ==
  {GroupSet(grid, size, q) : q \in {r \in DOMAIN grid :
     /\ Adjacent(size, p, r)
     /\ grid[r] = 3 - player
     /\ LibertySet(grid, size, GroupSet(grid, size, r)) = {p}}}

\* C2: MakeMove on an empty cell that is the only liberty of an adjacent
\* opponent group succeeds, empties exactly the cells of the captured
\* groups, and raises the mover's capture tally by the number of stones removed.
C2_CaptureCorrectness ==
  [][LET p == lastCall'.position
         taken == UNION OnlyLibertyGroups(Grid, Size, p, CurrentPlayer)
     IN (MakeMoveStep /\ Grid[p] = Empty /\ taken # {})
          => /\ ~lastCall'.err
             /\ Grid' = [q \in DOMAIN Grid |->
                           IF q \in taken THEN Empty
                           ELSE IF q = p THEN CurrentPlayer
                           ELSE Grid[q]]
             /\ CapturedStones'[CurrentPlayer]
                  = CapturedStones[CurrentPlayer] + Cardinality(taken)]_vars

\* C3: calling IsValidMove on any cell leaves every field of the board as
\* it was, whatever it returns.
C3_ValidationHasNoSideEffect ==
  \A p \in Cells(Board) : IsValidMove(Board, p).b = Board

\* the positions of the moves of the history, in order
PositionsPlayed == [i \in 1..Len(MoveHistory) |-> MoveHistory[i].Position]

\* C4: on a 9x9 board, after Player1 at 0, Player2 at 1, a pass of Player1
\* and Player2 at 9, the corner is empty and Player2 has captured one stone.
C4_CornerCaptureScenario ==
  (Size = ScenarioSize /\ PositionsPlayed = <<0, 1, PassPosition, 9>>)
    => (Grid[0] = Empty /\ CapturedStones[White] = 1)

\* C5: with a prior snapshot, a placement on an empty, non-suicide cell is
\* rejected if and only if the grid it would produce (stone plus captures)
\* equals the grid as it was just before the most recent placement.
C5_KoRule ==
  [][LET p == lastCall'.position
     IN (/\ MakeMoveStep
         /\ Ko # Nil
         /\ Grid[p] = Empty
         /\ ~RuleSuicide(Grid, Size, p, CurrentPlayer))
          => (lastCall'.err
                <=> RuleResult(Grid, Size, p, CurrentPlayer)
                      = GridBeforeLastPlacement(Size, MoveHistory))]_vars

\* a placement on an empty, non-suicide cell has just been rejected
C5_Witness ==
  /\ lastCall.op = "MakeMove"
  /\ lastCall.err
  /\ Grid[lastCall.position] = Empty
  /\ ~RuleSuicide(Grid, Size, lastCall.position, CurrentPlayer)
  /\ RuleResult(Grid, Size, lastCall.position, CurrentPlayer)
       = GridBeforeLastPlacement(Size, MoveHistory)

\* the players of the history alternate, starting with Player1, and the
\* player to move is Player1 exactly after an even number of moves
HistoryAlternates ==
  /\ Len(MoveHistory) > 0 => MoveHistory[1].Player = Black
  /\ \A i \in 1..(Len(MoveHistory) - 1) :
       MoveHistory[i].Player # MoveHistory[i + 1].Player
  /\ (CurrentPlayer = Black) <=> (Len(MoveHistory) % 2 = 0)

\* C6: every successful MakeMove and every Pass hands the turn to the other
\* player; hence the history starts with Player1, its players alternate and
\* Player1 is to move exactly when the history has even length.
C6_TurnAlternation ==
  /\ [][SucceededStep => CurrentPlayer' = 3 - CurrentPlayer]_vars
  /\ []HistoryAlternates

\* both a placement and a pass are on record and the last call succeeded
C6_Witness ==
  /\ lastCall.op \in {"MakeMove", "Pass"}
  /\ ~lastCall.err
  /\ \E i \in 1..Len(MoveHistory) : MoveHistory[i].Position = PassPosition
  /\ \E i \in 1..Len(MoveHistory) : MoveHistory[i].Position # PassPosition
  /\ Len(MoveHistory) >= 3

\* C7: MakeMove on an empty cell where the stone's own group would have no
\* liberty and no opponent group would be captured fails, at the suicide
\* check, and leaves the board unchanged.
C7_SuicideRejected ==
  [][LET p == lastCall'.position
     IN (MakeMoveStep /\ Grid[p] = Empty /\ RuleSuicide(Grid, Size, p, CurrentPlayer))
          => /\ lastCall'.err
             /\ IsValidMove(Board, p).at = "suicide"
             /\ UNCHANGED boardVars]_vars

\* a suicide placement has just been attempted
C7_Witness ==
  /\ lastCall.op = "MakeMove"
  /\ lastCall.err
  /\ Grid[lastCall.position] = Empty
  /\ RuleSuicide(Grid, Size, lastCall.position, CurrentPlayer)

\* C8: MakeMove on a cell that holds a stone of either player fails, at the
\* occupancy check, and leaves the board unchanged.
C8_OccupiedRejected ==
  [][LET p == lastCall'.position
     IN (MakeMoveStep /\ Grid[p] # Empty)
          => /\ lastCall'.err
             /\ IsValidMove(Board, p).at = "occupied"
             /\ UNCHANGED boardVars]_vars

\* placements on a stone of the mover and on a stone of the opponent have
\* just been attempted
C8_Witness ==
  /\ lastCall.op = "MakeMove"
  /\ lastCall.err
  /\ Grid[lastCall.position] = 3 - CurrentPlayer
  /\ \E q \in Cells(Board) : Grid[q] = CurrentPlayer

\* C9: a placement that leaves two or more distinct opponent groups next
\* to the placed stone without liberty removes every stone of all of them,
\* records exactly their positions in the move's CapturedPositions and
\* leaves every other stone in place.
C9_MultiGroupCapture ==
  [][LET p == lastCall'.position
         dead == DeadGroups(Grid, Size, p, CurrentPlayer)
     IN (MakeMoveStep /\ Grid[p] = Empty /\ Cardinality(dead) >= 2)
          => /\ ~lastCall'.err
             /\ Grid' = [q \in DOMAIN Grid |->
                           IF q \in UNION dead THEN Empty
                           ELSE IF q = p THEN CurrentPlayer
                           ELSE Grid[q]]
             /\ Len(MoveHistory') = Len(MoveHistory) + 1
             /\ Range(MoveHistory'[Len(MoveHistory')].CapturedPositions) = UNION dead]_vars

\* the last move took stones of two different groups of the grid before it
C9_Witness ==
  /\ lastCall.op = "MakeMove"
  /\ ~lastCall.err
  /\ LET taken == Range(MoveHistory[Len(MoveHistory)].CapturedPositions)
     IN \E q \in taken : \E r \in taken :
          /\ r \notin GroupSet(Ko, Size, q)
          /\ Grid[q] = Empty
          /\ Grid[r] = Empty

\* the last two entries of the history exist and are both passes
EndsWithTwoPasses ==
  /\ Len(MoveHistory) >= 2
  /\ \A i \in {Len(MoveHistory) - 1, Len(MoveHistory)} :
       MoveHistory[i].Position = PassPosition

\* C10: IsGameOver is true exactly when the history has at least two
\* entries and the last two are passes.
C10_GameOverIffTwoPasses == IsGameOver(Board) <=> EndsWithTwoPasses

\* the game has just ended by a second pass after at least one placement
C10_Witness ==
  /\ IsGameOver(Board)
  /\ lastCall.op = "Pass"
  /\ Len(MoveHistory) >= 3
  /\ MoveHistory[Len(MoveHistory) - 2].Position # PassPosition

\* C11: a placement request whose position is outside [0, Size*Size) is
\* answered by the handler with the out-of-bounds error, without calling
\* the board, and no field of the board changes.
C11_OutOfBoundsRejected ==
  [][(lastCall'.op # "Pass" /\ lastCall'.position \notin Cells(Board))
       => /\ lastCall'.op = "makeMove"
          /\ lastCall'.err
          /\ UNCHANGED boardVars]_vars

\* a request just above the range has been rejected on a board that holds
\* stones
C11_Witness ==
  /\ lastCall.op = "makeMove"
  /\ lastCall.err
  /\ lastCall.position = Size * Size
  /\ \E q \in Cells(Board) : Grid[q] # Empty

\* the cells that hold a stone before the step and none after it
EmptiedByStep == {q \in DOMAIN Grid : Grid[q] # Empty /\ Grid'[q] = Empty}

\* C12: a successful MakeMove(position) from grid G with player p to move
\* leaves Ko = G and Grid[position] = p, appends exactly one Move record
\* {p, position, the cells emptied by the move} after the unchanged earlier
\* entries, and hands the turn to the other player.
C12_SuccessfulPlacementEffect ==
  [][(MakeMoveStep /\ ~lastCall'.err)
       => /\ Ko' = Grid
          /\ Grid'[lastCall'.position] = CurrentPlayer
          /\ Len(MoveHistory') = Len(MoveHistory) + 1
          /\ SubSeq(MoveHistory', 1, Len(MoveHistory)) = MoveHistory
          /\ MoveHistory'[Len(MoveHistory')].Player = CurrentPlayer
          /\ MoveHistory'[Len(MoveHistory')].Position = lastCall'.position
          /\ Range(MoveHistory'[Len(MoveHistory')].CapturedPositions) = EmptiedByStep
          /\ Len(MoveHistory'[Len(MoveHistory')].CapturedPositions)
               = Cardinality(EmptiedByStep)
          /\ CurrentPlayer' = 3 - CurrentPlayer]_vars

\* a placement that captured has just succeeded after earlier moves
C12_Witness ==
  /\ lastCall.op = "MakeMove"
  /\ ~lastCall.err
  /\ Len(MoveHistory) >= 3
  /\ MoveHistory[Len(MoveHistory)].CapturedPositions # <<>>
  /\ Ko # Grid

\* C13: Pass appends exactly one record {CurrentPlayer, -1, no captured
\* positions}, hands the turn to the other player and leaves Grid,
\* CapturedStones and Ko unchanged; it can be called in every state.
C13_PassEffect ==
  /\ [][lastCall'.op = "Pass"
          => /\ MoveHistory' = Append(MoveHistory,
                                      [Player |-> CurrentPlayer,
                                       Position |-> PassPosition,
                                       CapturedPositions |-> <<>>])
             /\ CurrentPlayer' = 3 - CurrentPlayer
             /\ UNCHANGED <<Size, Grid, CapturedStones, Ko>>]_vars
  /\ [](Len(MoveHistory) < MaxMoves => ENABLED Pass)

\* a pass has just been made on a board with a ko snapshot and a capture
C13_Witness ==
  /\ lastCall.op = "Pass"
  /\ Ko # Nil
  /\ \E i \in 1..2 : CapturedStones[i] > 0
  /\ MoveHistory[Len(MoveHistory)].Position = PassPosition

\* C14: over one MakeMove or Pass every cell keeps its value, or goes from
\* Empty to the mover's colour (the placed cell only), or goes from a colour
\* to Empty; no cell goes from one colour to the other and the stone just
\* placed is still there.
C14_CellTransitions ==
  [][/\ \A q \in DOMAIN Grid :
          \/ Grid'[q] = Grid[q]
          \/ /\ Grid[q] = Empty
             /\ Grid'[q] = CurrentPlayer
             /\ MakeMoveStep /\ ~lastCall'.err /\ q = lastCall'.position
          \/ /\ Grid[q] # Empty
             /\ Grid'[q] = Empty
     /\ (MakeMoveStep /\ ~lastCall'.err) => Grid'[lastCall'.position] = CurrentPlayer]_vars

\* the last move put a stone on an empty cell and took an opponent stone off
C14_Witness ==
  /\ lastCall.op = "MakeMove"
  /\ ~lastCall.err
  /\ Ko[lastCall.position] = Empty
  /\ Grid[lastCall.position] = 3 - CurrentPlayer
  /\ \E q \in DOMAIN Grid : Ko[q] = CurrentPlayer /\ Grid[q] = Empty

\* the handlers that hold a validated move of which they have not returned
PastValidation ==
  {t \in Handlers : inflight[t].phase \in {"validated", "placed", "captured"}}

\* C15: with makeMove and getGame running concurrently on one board, no
\* caller observes an intermediate state (every board getGame answers with
\* is the replay of its own history), and two calls of makeMove never both
\* pass validation against the same pre-move state.
C15_AtomicUnderConcurrentCallers ==
  /\ observed # <<>>
       => observed[1].Grid = Replay(observed[1].Size, observed[1].MoveHistory,
                                    Len(observed[1].MoveHistory))
  /\ Cardinality(PastValidation) <= 1

\* C16: on every board, for every empty position and each player,
\* WouldBeSuicide returns true exactly when, with the stone placed, the
\* stone's group has no liberty and no opponent group next to it has none
\* either; the call leaves the grid as it found it.
C16_SuicideCheckEquivalence ==
  [][lastCall'.op = "WouldBeSuicide"
       => /\ lastCall'.ret
               <=> RuleSuicide(Grid, Size, lastCall'.position, lastCall'.player)
          /\ UNCHANGED boardVars]_vars

\* WouldBeSuicide has answered no for a stone that fills its own last
\* liberty and takes the last liberty of an opponent group
C16_Witness ==
  /\ lastCall.op = "WouldBeSuicide"
  /\ ~lastCall.ret
  /\ LibertySet(Placed(Grid, lastCall.position, lastCall.player), Size,
                GroupSet(Placed(Grid, lastCall.position, lastCall.player), Size,
                         lastCall.position)) = {}
  /\ DeadGroups(Grid, Size, lastCall.position, lastCall.player) # {}

\* C17: GetGroup returns nothing for an empty cell and otherwise lists, each
\* exactly once, the cells joined to position through adjacent cells of its
\* colour, position among them.
C17_GetGroupCorrect ==
  lastCall.op = "GetGroup"
    => IF Grid[lastCall.position] = Empty
       THEN lastCall.ret = Nil
       ELSE /\ Range(lastCall.ret) = GroupSet(Grid, Size, lastCall.position)
            /\ Len(lastCall.ret) = Cardinality(Range(lastCall.ret))
            /\ lastCall.position \in Range(lastCall.ret)

\* GetGroup has returned a group of three stones that bends round a corner
C17_Witness ==
  /\ lastCall.op = "GetGroup"
  /\ Len(lastCall.ret) = 3
  /\ lastCall.ret[1] = lastCall.position
  /\ \E q \in Range(lastCall.ret) : ~Adjacent(Size, q, lastCall.position)

\* C18: in every state reached from NewBoard by calls of MakeMove and Pass,
\* every group of stones on the grid has at least one liberty.
C18_NoDeadGroups == LegalGrid(Grid, Size)

\* the stone just placed filled the last liberty of its own group and stands
\* because the move took opponent stones off
C18_Witness ==
  /\ lastCall.op = "MakeMove"
  /\ ~lastCall.err
  /\ MoveHistory[Len(MoveHistory)].CapturedPositions # <<>>
  /\ LibertySet(Placed(Ko, lastCall.position, 3 - CurrentPlayer), Size,
                GroupSet(Placed(Ko, lastCall.position, 3 - CurrentPlayer), Size,
                         lastCall.position)) = {}

RECURSIVE RecordedCaptures(_, _, _)

\* the number of positions in CapturedPositions over the first k entries of
\* a history that were made by player
RecordedCaptures(moves, player, k) ==
  IF k = 0
  THEN 0
  ELSE RecordedCaptures(moves, player, k - 1)
         + (IF moves[k].Player = player THEN Len(moves[k].CapturedPositions) ELSE 0)

\* C19: in every reachable state, for each player p, CapturedStones[p] is
\* the number of positions in CapturedPositions over the entries of
\* MoveHistory made by p.
C19_TallyMatchesHistory ==
  \A player \in {Black, White} :
    CapturedStones[player] = RecordedCaptures(MoveHistory, player, Len(MoveHistory))

\* the step is a call of MakeMove that IsValidMove turns down in its ko block
RejectedAsKoStep ==
  /\ MakeMoveStep
  /\ lastCall'.position \in Cells(Board)
  /\ IsValidMove(Board, lastCall'.position).at = "ko"

\* C20: whenever IsValidMove rejects a placement at X because the simulated
\* grid equals Ko, the most recent placement in MoveHistory, at Y, captured
\* exactly one stone, the one at X, and the rejected placement would
\* capture exactly one stone, the one at Y; passes in between change nothing.
C20_FullGridKoIsSingleStoneKo ==
  [][RejectedAsKoStep
       => /\ LastPlacement(MoveHistory) > 0
          /\ MoveHistory[LastPlacement(MoveHistory)].CapturedPositions
               = <<lastCall'.position>>
          /\ UNION DeadGroups(Grid, Size, lastCall'.position, CurrentPlayer)
               = {MoveHistory[LastPlacement(MoveHistory)].Position}]_vars

\* a recapture has been rejected after both players passed on the capture
C20_Witness ==
  /\ lastCall.op = "MakeMove"
  /\ lastCall.err
  /\ IsValidMove(Board, lastCall.position).at = "ko"
  /\ Len(MoveHistory) >= 3
  /\ MoveHistory[Len(MoveHistory)].Position = PassPosition
  /\ MoveHistory[Len(MoveHistory) - 1].Position = PassPosition
  /\ MoveHistory[Len(MoveHistory) - 2].CapturedPositions = <<lastCall.position>>

====
